---- MODULE Spec2Model ----
(***************************************************************************)
(* A model of the gRPC connection pool (GRPCPool, Connection).             *)
(*                                                                         *)
(* Every goroutine that calls into the pool is a process of Procs.  A call *)
(* is a sequence of steps, one per shared-memory operation of the Go code  *)
(* (a channel send or receive, an atomic load or add, a sync.Map access,   *)
(* a call of the dialer, of GetState/Close, of a stream initializer or a   *)
(* stream handler); pc[t] is the place of process t in the code.           *)
(***************************************************************************)
EXTENDS Integers, Sequences, FiniteSets, TLC

\* ------------------------------------------------------------------ bounds
NumProcs == 2
MaxCapBound == 2
MaxConns == 3
MaxStreams == 2
MaxUnderflow == 2

Procs == 1..NumProcs
\* transport connections (*grpc.ClientConn); 0 is the nil pointer
Conns == 1..MaxConns
\* wrappers (*Connection); 0 is the nil pointer.  At most MaxCap wrappers sit
\* in the channel and every process holds at most one more.
Wrappers == 1..(MaxCapBound + NumProcs)
Names == {"x", "y"}
\* stream initializers the application may register; 0 is "none"
Initializers == {1, 2}
\* stream objects; 0 is "none"
Streams == 1..MaxStreams

VARIABLES
    options,      \* Options: [InitCap, MaxCap]
    pool,         \* what NewGRPCPool has returned: "new" (running), "ready", "nil"
    i,            \* loop index of GRPCPool.init
    connections,  \* GRPCPool.connections: the buffered channel, a sequence of wrappers
    connCount,    \* GRPCPool.connCount, a uint32 read as its two's-complement value
    registry,     \* GRPCPool.streamInitializers: name -> initializer or 0
    connState,    \* connectivity state of every transport connection
    wconn,        \* Connection.connection of every wrapper
    wstreams,     \* Connection.streams of every wrapper: name -> stream or 0
    streamBy,     \* the initializer that produced each stream object (0: not yet made)
    dialer,       \* behaviour of grpc.DialContext: "any", "fail"
    panicked,     \* a goroutine panicked: the process is gone
    op,           \* the exported call process t is in
    pc,           \* its place in the code
    c,            \* local c / conn / connection: the wrapper in hand
    h,            \* local connection / c of type *grpc.ClientConn (Push: the caller's argument)
    name,         \* GetStream's argument name
    val,          \* GetStream's local val (the cached stream)
    ok,           \* GetStream's local ok
    stream,       \* GetStream's local stream
    init,         \* GetStream's local initializer
    depth,        \* frames of Connection.GetStream on t's stack (it calls itself)
    evicted,      \* stream objects a handler reported io.EOF on when they were cached
    err,          \* the local err
    ret,          \* what the last call of t returned: [conn, err]
    held,         \* caller's side: handles t got from Pop and has not pushed back
    checked       \* transport that passed checkConnectionState in t's current call since t's last receive

vars == <<options, pool, i, connections, connCount, registry, connState, wconn,
          wstreams, streamBy, dialer, panicked, op, pc, c, h, name, val, ok,
          stream, init, depth, evicted, err, ret, held, checked>>

poolVars == <<options, pool, i, connections, connCount, connState, dialer, panicked>>
heapVars == <<wconn, wstreams>>
streamVars == <<registry, streamBy>>
streamLocals == <<name, val, ok, stream, init, depth, evicted>>

\* --------------------------------------------------------------- helpers
NoStreams == [n \in Names |-> 0]
NoRet == [conn |-> 0, err |-> "none"]

\* uint32 comparison a >= b on two's-complement readings (negative = above 2^31)
U32Geq(a, b) == IF a < 0 THEN (b >= 0 \/ a >= b) ELSE (b >= 0 /\ a >= b)

\* atomic.AddUint32(&connCount, 1) and atomic.AddUint32(&connCount, ^uint32(0))
\* an unref that leaves the counter alone
SubUint32_lost(n) == n
AddUint32(n) == n + 1
SubUint32(n) == n - 1

Range(s) == {s[k] : k \in 1..Len(s)}

\* wrappers the garbage collector cannot have freed
Live == Range(connections) \cup {c[t] : t \in Procs}
NewWrapper == CHOOSE w \in Wrappers \ Live : \A v \in Wrappers \ Live : w <= v

Unborn == {x \in Conns : connState[x] = "Unborn"}
NewConn == CHOOSE x \in Unborn : \A y \in Unborn : x <= y

Set(f, t, v) == [f EXCEPT ![t] = v]

\* handles checked out by Pop and not pushed back yet
Exclusive == UNION {held[t] : t \in Procs}

\* process t is at label l (a panic of any goroutine ends the whole program)
At(t, l) == ~panicked /\ pc[t] = l

\* the garbage collector frees the wrappers nothing refers to any more
CollectFrom(ws) ==
    /\ wconn' = [w \in Wrappers |-> IF w \in Live' THEN wconn[w] ELSE 0]
    /\ wstreams' = [w \in Wrappers |-> IF w \in Live' THEN ws[w] ELSE NoStreams]
Collect == CollectFrom(wstreams)

Unmade == {x \in Streams : streamBy[x] = 0}
NewStream == CHOOSE x \in Unmade : \A y \in Unmade : x <= y

\* ------------------------------------------------------------------ states
TypeOK ==
    /\ options \in [InitCap : 0..(MaxConns + 1), MaxCap : 1..MaxConns]
    /\ pool \in {"new", "ready", "nil"}
    /\ connections \in Seq(Wrappers)
    /\ connCount \in Int
    /\ connState \in [Conns -> {"Unborn", "Ready", "TransientFailure", "Shutdown"}]
    /\ wconn \in [Wrappers -> Conns \cup {0}]
    /\ panicked \in BOOLEAN

InitLocals ==
    /\ c = [t \in Procs |-> 0]
    /\ h = [t \in Procs |-> 0]
    /\ name = [t \in Procs |-> "x"]
    /\ val = [t \in Procs |-> 0]
    /\ ok = [t \in Procs |-> FALSE]
    /\ stream = [t \in Procs |-> 0]
    /\ init = [t \in Procs |-> 0]
    /\ depth = [t \in Procs |-> 0]
    /\ evicted = {}
    /\ err = [t \in Procs |-> "nil"]
    /\ ret = [t \in Procs |-> NoRet]
    /\ held = [t \in Procs |-> {}]
    /\ checked = [t \in Procs |-> 0]

InitHeap ==
    /\ registry = [n \in Names |-> 0]
    /\ wconn = [w \in Wrappers |-> 0]
    /\ wstreams = [w \in Wrappers |-> NoStreams]
    /\ streamBy = [s \in Streams |-> 0]

\* The program calls NewGRPCPool(host, options) on process 1.
Init ==
    /\ options \in {o \in [InitCap : 0..(MaxCapBound + 1), MaxCap : 1..MaxCapBound] :
                        o.InitCap <= o.MaxCap + 1}
    /\ pool = "new"
    /\ i = 0
    /\ connections = <<>>
    /\ connCount = 0
    /\ connState = [x \in Conns |-> "Unborn"]
    /\ dialer = "any"
    /\ panicked = FALSE
    /\ op = [t \in Procs |-> IF t = 1 THEN "New" ELSE "none"]
    /\ pc = [t \in Procs |-> IF t = 1 THEN "init_loop" ELSE "done"]
    /\ InitLocals
    /\ InitHeap

\* ------------------------------------------------------- NewGRPCPool, init
\* for i := 0; i < pool.options.InitCap; i++ { connection, err := pool.factory() ...
init_loop(t) ==
    /\ At(t, "init_loop")
    /\ IF i < options.InitCap
         THEN /\ pc' = Set(pc, t, "ref_load")
              /\ UNCHANGED <<pool, ret>>
         ELSE \* init returns nil, NewGRPCPool returns pool, nil
              /\ pc' = Set(pc, t, "done")
              /\ pool' = "ready"
              /\ ret' = Set(ret, t, [conn |-> 0, err |-> "nil"])
    /\ UNCHANGED <<options, i, connections, connCount, connState, dialer, panicked,
                   heapVars, streamVars, streamLocals, held, op, c, h, err, checked>>

\* pool.connections <- NewConnection(pool, connection)
init_enqueue(t) ==
    /\ At(t, "init_enqueue")
    /\ Len(connections) < options.MaxCap
    /\ LET w == NewWrapper IN
         /\ wconn' = Set(wconn, w, h[t])
         /\ wstreams' = Set(wstreams, w, NoStreams)
         /\ connections' = Append(connections, w)
    /\ i' = i + 1
    /\ h' = Set(h, t, 0)
    /\ pc' = Set(pc, t, "init_loop")
    /\ UNCHANGED <<options, pool, connCount, connState, dialer, panicked,
                   streamVars, streamLocals, held, op, c, err, ret, checked>>

\* ---------------------------------------------------------- ref, factory
\* an init that goes on to its next dial after a failure
FactoryFailed_goes_on(t, e) ==
    IF op[t] = "New"
      THEN /\ pc' = Set(pc, t, "init_loop")
           /\ UNCHANGED <<pool, ret>>
      ELSE /\ pc' = Set(pc, t, IF e = "ErrExceeded" THEN "select" ELSE "count_check")
           /\ UNCHANGED <<pool, ret>>

\* what the caller of factory does with a failure
FactoryFailed(t, e) ==
    IF op[t] = "New"
      THEN \* init returns err, NewGRPCPool returns nil, err
           /\ pc' = Set(pc, t, "done")
           /\ pool' = "nil"
           /\ ret' = Set(ret, t, [conn |-> 0, err |-> e])
      ELSE \* get, pop: if err == ErrExceeded { continue }
           /\ pc' = Set(pc, t, IF e = "ErrExceeded" THEN "select" ELSE "count_check")
           /\ UNCHANGED <<pool, ret>>

\* count := pool.getConnectionCount(); if count >= uint32(pool.options.MaxCap)
RefAdmits(count) == ~U32Geq(count, options.MaxCap)

ref_load(t) ==
    /\ At(t, "ref_load")
    /\ IF RefAdmits(connCount)
         THEN /\ pc' = Set(pc, t, "ref_add")
              /\ UNCHANGED <<pool, ret>>
         ELSE FactoryFailed(t, "ErrExceeded")
    /\ UNCHANGED <<options, i, connections, connCount, connState, dialer, panicked,
                   heapVars, streamVars, streamLocals, held, op, c, h, err, checked>>

\* count = atomic.AddUint32(&pool.connCount, 1)
ref_add(t) ==
    /\ At(t, "ref_add")
    /\ connCount' = AddUint32(connCount)
    /\ pc' = Set(pc, t, "dial")
    /\ UNCHANGED <<options, pool, i, connections, connState, dialer, panicked,
                   heapVars, streamVars, streamLocals, held, op, c, h, err, ret, checked>>

DialOutcomes ==
    IF dialer = "fail" \/ Unborn = {} THEN {"DialError"} ELSE {"nil", "DialError"}

\* a factory that returns the dial error without giving the slot back
dial_leaks(t) ==
    /\ At(t, "dial")
    /\ \E e \in DialOutcomes :
         IF e = "nil"
           THEN /\ connState' = Set(connState, NewConn, "Ready")
                /\ h' = Set(h, t, NewConn)
                /\ pc' = Set(pc, t, IF op[t] = "New" THEN "init_enqueue" ELSE "push_check")
                /\ UNCHANGED <<pool, ret>>
           ELSE /\ FactoryFailed(t, e)
                /\ UNCHANGED <<connState, h>>
    /\ UNCHANGED <<options, i, connections, connCount, dialer, panicked,
                   heapVars, streamVars, streamLocals, held, op, c, err, checked>>

\* connection, err := grpc.DialContext(ctx, pool.host, pool.dialOptions...)
dial(t) ==
    /\ At(t, "dial")
    /\ \E e \in DialOutcomes :
         IF e = "nil"
           THEN /\ connState' = Set(connState, NewConn, "Ready")
                /\ h' = Set(h, t, NewConn)
                /\ pc' = Set(pc, t, IF op[t] = "New" THEN "init_enqueue" ELSE "push_check")
           ELSE /\ pc' = Set(pc, t, "dial_unref")
                /\ UNCHANGED <<connState, h>>
    /\ UNCHANGED <<options, pool, i, connections, connCount, dialer, panicked,
                   heapVars, streamVars, streamLocals, held, op, c, err, ret, checked>>

\* if err != nil { pool.unref(); return nil, err }
dial_unref(t) ==
    /\ At(t, "dial_unref")
    /\ connCount' = SubUint32(connCount)
    /\ FactoryFailed(t, "DialError")
    /\ UNCHANGED <<options, i, connections, connState, dialer, panicked,
                   heapVars, streamVars, streamLocals, held, op, c, h, err, checked>>

\* ------------------------------------------------- checkConnectionState
\* state == connectivity.Shutdown || state == connectivity.TransientFailure
Unusable(x) == connState[x] \in {"Shutdown", "TransientFailure"}

\* ------------------------------------------------------------- get, pop
\* a receive that leaves the handle in the free list
select_peek(t) ==
    /\ At(t, "select")
    /\ IF connections # <<>>
         THEN /\ c' = Set(c, t, Head(connections))
              /\ pc' = Set(pc, t, "check")
         ELSE /\ c' = Set(c, t, 0)
              /\ pc' = Set(pc, t, "ref_load")
    /\ checked' = Set(checked, t, 0)
    /\ UNCHANGED <<options, pool, i, connections, connCount, connState, dialer, panicked,
                   heapVars, streamVars, streamLocals, held, op, h, err, ret>>

\* select { case c := <-pool.connections: ... default: c, err := pool.factory() ...
select(t) ==
    /\ At(t, "select")
    /\ IF connections # <<>>
         THEN /\ c' = Set(c, t, Head(connections))
              /\ connections' = Tail(connections)
              /\ pc' = Set(pc, t, "check")
         ELSE /\ c' = Set(c, t, 0)
              /\ pc' = Set(pc, t, "ref_load")
              /\ UNCHANGED connections
    /\ checked' = Set(checked, t, 0)
    /\ UNCHANGED <<options, pool, i, connCount, connState, dialer, panicked,
                   heapVars, streamVars, streamLocals, held, op, h, err, ret>>

\* if !pool.checkConnectionState(c.connection) { continue }
check(t) ==
    /\ At(t, "check")
    /\ LET x == wconn[c[t]] IN
         IF Unusable(x)
           THEN \* connection.Close()
                /\ connState' = Set(connState, x, "Shutdown")
                /\ pc' = Set(pc, t, "check_unref")
                /\ c' = Set(c, t, 0)
                /\ UNCHANGED checked
           ELSE /\ pc' = Set(pc, t, IF op[t] = "Pop" THEN "return" ELSE "enqueue")
                /\ checked' = Set(checked, t, x)
                /\ UNCHANGED <<connState, c>>
    /\ UNCHANGED connections
    /\ Collect
    /\ UNCHANGED <<options, pool, i, connCount, dialer, panicked,
                   streamVars, streamLocals, held, op, h, err, ret>>

\* pool.unref(); return false  -- and the loop continues
check_unref(t) ==
    /\ At(t, "check_unref")
    /\ connCount' = SubUint32(connCount)
    /\ pc' = Set(pc, t, "select")
    /\ UNCHANGED <<options, pool, i, connections, connState, dialer, panicked,
                   heapVars, streamVars, streamLocals, held, op, c, h, err, ret, checked>>

\* a get that keeps the handle to itself, as pop does
enqueue_kept(t) ==
    /\ At(t, "enqueue")
    /\ pc' = Set(pc, t, "return")
    /\ UNCHANGED <<options, pool, i, connections, connCount, connState, dialer, panicked,
                   heapVars, streamVars, streamLocals, held, op, c, h, err, ret, checked>>

\* get: pool.connections <- c   (a send blocks while the channel is full)
enqueue(t) ==
    /\ At(t, "enqueue")
    /\ Len(connections) < options.MaxCap
    /\ connections' = Append(connections, c[t])
    /\ pc' = Set(pc, t, "return")
    /\ UNCHANGED <<options, pool, i, connCount, connState, dialer, panicked,
                   heapVars, streamVars, streamLocals, held, op, c, h, err, ret, checked>>

\* get, pop: return c, nil;  Get, Pop: return conn.connection, nil;
\* GetStream: return conn.GetStream(name, fn)
return(t) ==
    /\ At(t, "return")
    /\ IF op[t] = "GetStream"
         THEN /\ pc' = Set(pc, t, "gs_load")
              /\ depth' = Set(depth, t, 1)
              /\ UNCHANGED <<c, ret, held>>
         ELSE /\ pc' = Set(pc, t, "done")
              /\ UNCHANGED depth
              /\ ret' = Set(ret, t, [conn |-> wconn[c[t]], err |-> "nil"])
              /\ held' = IF op[t] = "Pop" THEN Set(held, t, held[t] \cup {wconn[c[t]]}) ELSE held
              /\ c' = Set(c, t, 0)
    /\ UNCHANGED connections
    /\ Collect
    /\ UNCHANGED <<options, pool, i, connCount, connState, dialer, panicked,
                   streamVars, name, val, ok, stream, init, evicted, op, h, err, checked>>

\* if pool.getConnectionCount() == uint32(0) { return nil, ErrUnavailable }
\* get: continue;  pop: falls out of the if to pool.Push(c) with c == nil
count_check(t) ==
    /\ At(t, "count_check")
    /\ IF connCount = 0
         THEN /\ pc' = Set(pc, t, "done")
              /\ ret' = Set(ret, t, [conn |-> 0, err |-> "ErrUnavailable"])
         ELSE /\ pc' = Set(pc, t, IF op[t] = "Pop" THEN "push_check" ELSE "select")
              /\ UNCHANGED ret
    /\ UNCHANGED <<options, pool, i, connections, connCount, connState, dialer, panicked,
                   heapVars, streamVars, streamLocals, held, op, c, h, err, checked>>

\* ------------------------------------------------------------ Push, push
\* push returns nil to Push (the caller's call ends) or to get / pop (the loop goes on)
PushReturns(t) ==
    IF op[t] = "Push"
      THEN /\ pc' = Set(pc, t, "done")
           /\ ret' = Set(ret, t, [conn |-> 0, err |-> "nil"])
           /\ UNCHANGED h
      ELSE /\ pc' = Set(pc, t, "select")
           /\ h' = Set(h, t, 0)
           /\ UNCHANGED ret

\* a push that closes an unhealthy handle and enqueues it all the same
push_check_keeps(t) ==
    /\ At(t, "push_check")
    /\ IF h[t] = 0
         THEN /\ panicked' = TRUE
              /\ pc' = Set(pc, t, "panic")
              /\ UNCHANGED connState
         ELSE /\ connState' = IF Unusable(h[t]) THEN Set(connState, h[t], "Shutdown") ELSE connState
              /\ pc' = Set(pc, t, "push_enqueue")
              /\ UNCHANGED panicked
    /\ UNCHANGED <<options, pool, i, connections, connCount, dialer,
                   heapVars, streamVars, streamLocals, held, op, c, h, err, ret, checked>>

\* push: if !pool.checkConnectionState(connection.connection) { return nil }
\* connection.GetState() on the nil *grpc.ClientConn panics
push_check(t) ==
    /\ At(t, "push_check")
    /\ IF h[t] = 0
         THEN /\ panicked' = TRUE
              /\ pc' = Set(pc, t, "panic")
              /\ UNCHANGED connState
         ELSE IF Unusable(h[t])
           THEN /\ connState' = Set(connState, h[t], "Shutdown")
                /\ pc' = Set(pc, t, "push_unref")
                /\ UNCHANGED panicked
           ELSE /\ pc' = Set(pc, t, "push_enqueue")
                /\ UNCHANGED <<connState, panicked>>
    /\ UNCHANGED <<options, pool, i, connections, connCount, dialer,
                   heapVars, streamVars, streamLocals, held, op, c, h, err, ret, checked>>

push_unref(t) ==
    /\ At(t, "push_unref")
    /\ connCount' = SubUint32(connCount)
    /\ PushReturns(t)
    /\ UNCHANGED <<options, pool, i, connections, connState, dialer, panicked,
                   heapVars, streamVars, streamLocals, held, op, c, err, checked>>

\* Push: NewConnection(pool, connection);  push: pool.connections <- connection
push_enqueue(t) ==
    /\ At(t, "push_enqueue")
    /\ Len(connections) < options.MaxCap
    /\ LET w == NewWrapper IN
         /\ wconn' = Set(wconn, w, h[t])
         /\ wstreams' = Set(wstreams, w, NoStreams)
         /\ connections' = Append(connections, w)
    /\ PushReturns(t)
    /\ UNCHANGED <<options, pool, i, connCount, connState, dialer, panicked,
                   streamVars, streamLocals, held, op, c, err, checked>>

\* -------------------------------------------------- Connection.GetStream
\* GetStream returns e
GetStreamReturns(t, e, ws) ==
    /\ pc' = Set(pc, t, "done")
    /\ ret' = Set(ret, t, [conn |-> 0, err |-> e])
    /\ c' = Set(c, t, 0)
    /\ val' = Set(val, t, 0)
    /\ ok' = Set(ok, t, FALSE)
    /\ stream' = Set(stream, t, 0)
    /\ err' = Set(err, t, "nil")
    /\ depth' = Set(depth, t, 0)
    /\ UNCHANGED connections
    /\ CollectFrom(ws)

\* val, ok := connection.streams.Load(name)
gs_load(t) ==
    /\ At(t, "gs_load")
    /\ val' = Set(val, t, wstreams[c[t]][name[t]])
    /\ ok' = Set(ok, t, wstreams[c[t]][name[t]] # 0)
    /\ pc' = Set(pc, t, IF wstreams[c[t]][name[t]] # 0 THEN "gs_cached" ELSE "gs_lookup")
    /\ UNCHANGED <<poolVars, heapVars, streamVars, init, depth, evicted, held, op, c, h, name,
                   stream, err, ret, checked>>

\* what a StreamHandler may report
HandlerOutcomes == {"nil", "EOF", "HandlerError"}

\* if ok { err := fn(val); if err == io.EOF {...}; if err != nil { return err } }
gs_cached(t) ==
    /\ At(t, "gs_cached")
    /\ \E e \in HandlerOutcomes :
         IF e = "EOF"
           THEN /\ pc' = Set(pc, t, "gs_delete")
                /\ evicted' = evicted \cup {val[t]}
                /\ UNCHANGED <<connections, heapVars, c, val, ok, stream, err, ret, depth>>
           ELSE IF e # "nil"
             THEN /\ GetStreamReturns(t, e, wstreams)
                  /\ UNCHANGED evicted
             ELSE \* the if block ends and the code below it runs
                  /\ pc' = Set(pc, t, "gs_lookup")
                  /\ UNCHANGED <<connections, heapVars, evicted, c, val, ok, stream, err, ret,
                                 depth>>
    /\ UNCHANGED <<options, pool, i, connCount, connState, dialer, panicked,
                   streamVars, init, held, op, h, name, checked>>

\* a retry that leaves the dead stream in the cache
gs_delete_skipped(t) ==
    /\ At(t, "gs_delete")
    /\ depth' = Set(depth, t, depth[t] + 1)
    /\ pc' = Set(pc, t, "gs_load")
    /\ UNCHANGED <<poolVars, heapVars, streamVars, init, evicted, held, op, c, h, name,
                   val, ok, stream, err, ret, checked>>

\* connection.streams.Delete(name); return connection.GetStream(name, fn)
gs_delete(t) ==
    /\ At(t, "gs_delete")
    /\ wstreams' = Set(wstreams, c[t], Set(wstreams[c[t]], name[t], 0))
    /\ val' = Set(val, t, 0)
    /\ ok' = Set(ok, t, FALSE)
    /\ depth' = Set(depth, t, depth[t] + 1)
    /\ pc' = Set(pc, t, "gs_load")
    /\ UNCHANGED <<poolVars, wconn, streamVars, init, evicted, held, op, c, h, name,
                   stream, err, ret, checked>>

\* a lookup that reports success when it finds no initializer
gs_lookup_silent(t) ==
    /\ At(t, "gs_lookup")
    /\ IF registry[name[t]] = 0
         THEN /\ GetStreamReturns(t, "nil", wstreams)
              /\ UNCHANGED init
         ELSE /\ init' = Set(init, t, registry[name[t]])
              /\ pc' = Set(pc, t, "gs_init")
              /\ UNCHANGED <<connections, heapVars, c, val, ok, stream, err, ret, depth>>
    /\ UNCHANGED <<options, pool, i, connCount, connState, dialer, panicked,
                   streamVars, evicted, held, op, h, name, checked>>

\* initializer := connection.pool.GetStreamInitializer(name); if initializer == nil
gs_lookup(t) ==
    /\ At(t, "gs_lookup")
    /\ IF registry[name[t]] = 0
         THEN /\ GetStreamReturns(t, "NoInitializer", wstreams)
              /\ UNCHANGED init
         ELSE /\ init' = Set(init, t, registry[name[t]])
              /\ pc' = Set(pc, t, "gs_init")
              /\ UNCHANGED <<connections, heapVars, c, val, ok, stream, err, ret, depth>>
    /\ UNCHANGED <<options, pool, i, connCount, connState, dialer, panicked,
                   streamVars, evicted, held, op, h, name, checked>>

\* what a StreamInitializer may return: a stream, (nil, nil), or an error
InitializerOutcomes == IF Unmade = {} THEN {"InvalidStream", "InitError"}
                       ELSE {"nil", "InvalidStream", "InitError"}

\* stream, err := initializer(connection.connection); if err != nil; if stream == nil
gs_init(t) ==
    /\ At(t, "gs_init")
    /\ \E e \in InitializerOutcomes :
         IF e = "nil"
           THEN /\ stream' = Set(stream, t, NewStream)
                /\ streamBy' = Set(streamBy, NewStream, init[t])
                /\ pc' = Set(pc, t, "gs_new")
                /\ UNCHANGED <<connections, heapVars, c, val, ok, err, ret, depth>>
           ELSE /\ GetStreamReturns(t, e, wstreams)
                /\ UNCHANGED streamBy
    /\ init' = Set(init, t, 0)
    /\ UNCHANGED <<options, pool, i, connCount, connState, dialer, panicked,
                   registry, evicted, held, op, h, name, checked>>

\* a GetStream that caches the new stream only when the handler succeeded
gs_new_strict(t) ==
    /\ At(t, "gs_new")
    /\ \E e \in HandlerOutcomes :
         IF e # "nil"
           THEN GetStreamReturns(t, e, wstreams)
           ELSE /\ err' = Set(err, t, e)
                /\ pc' = Set(pc, t, "gs_store")
                /\ UNCHANGED <<connections, heapVars, c, val, ok, stream, ret, depth>>
    /\ UNCHANGED <<options, pool, i, connCount, connState, dialer, panicked,
                   streamVars, evicted, init, held, op, h, name, checked>>

\* err = fn(stream); if err != io.EOF { connection.streams.Store(name, stream) }
gs_new(t) ==
    /\ At(t, "gs_new")
    /\ \E e \in HandlerOutcomes :
         IF e = "EOF"
           THEN GetStreamReturns(t, e, wstreams)
           ELSE /\ err' = Set(err, t, e)
                /\ pc' = Set(pc, t, "gs_store")
                /\ UNCHANGED <<connections, heapVars, c, val, ok, stream, ret, depth>>
    /\ UNCHANGED <<options, pool, i, connCount, connState, dialer, panicked,
                   streamVars, evicted, init, held, op, h, name, checked>>

\* connection.streams.Store(name, stream); return err
gs_store(t) ==
    /\ At(t, "gs_store")
    /\ GetStreamReturns(t, err[t], Set(wstreams, c[t], Set(wstreams[c[t]], name[t], stream[t])))
    /\ UNCHANGED <<options, pool, i, connCount, connState, dialer, panicked,
                   streamVars, evicted, init, held, op, h, name, checked>>

\* ------------------------------------------------------------ the callers
Idle(t) == At(t, "done") /\ pool = "ready"

Call(t, o, at) ==
    /\ op' = Set(op, t, o)
    /\ pc' = Set(pc, t, at)
    /\ ret' = Set(ret, t, NoRet)
    /\ checked' = Set(checked, t, 0)

Get(t) ==
    /\ Idle(t)
    /\ Call(t, "Get", "select")
    /\ h' = Set(h, t, 0)
    /\ UNCHANGED <<poolVars, heapVars, streamVars, streamLocals, held, c, err>>

Pop(t) ==
    /\ Idle(t)
    /\ Call(t, "Pop", "select")
    /\ h' = Set(h, t, 0)
    /\ UNCHANGED <<poolVars, heapVars, streamVars, streamLocals, held, c, err>>

\* the caller gives back a handle it got from Pop
Push(t) ==
    /\ Idle(t)
    /\ \E x \in held[t] :
         /\ held' = Set(held, t, held[t] \ {x})
         /\ h' = Set(h, t, x)
    /\ Call(t, "Push", "push_check")
    /\ UNCHANGED <<poolVars, heapVars, streamVars, streamLocals, c, err>>

\* the caller pushes once more the handle of the Push it has just made, which the
\* pool has closed
Repush(t) ==
    /\ Idle(t)
    /\ op[t] = "Push"
    /\ connState[h[t]] = "Shutdown"
    /\ connCount + MaxUnderflow > 0
    /\ Call(t, "Push", "push_check")
    /\ UNCHANGED <<poolVars, heapVars, streamVars, streamLocals, held, c, h, err>>

\* GRPCPool.GetStream(name, fn): conn, err := pool.get()
GetStream(t) ==
    /\ Idle(t)
    /\ Call(t, "GetStream", "select")
    /\ h' = Set(h, t, 0)
    /\ \E n \in Names : name' = Set(name, t, n)
    /\ UNCHANGED <<poolVars, heapVars, streamVars, val, ok, stream, init, depth, evicted, held,
                   c, err>>

\* Connection.GetStream(name, fn) called on a wrapper of the pool
ConnectionGetStream(t) ==
    /\ Idle(t)
    /\ Call(t, "Connection.GetStream", "gs_load")
    /\ h' = Set(h, t, 0)
    /\ \E w \in Range(connections) : c' = Set(c, t, w)
    /\ \E n \in Names : name' = Set(name, t, n)
    /\ depth' = Set(depth, t, 1)
    /\ UNCHANGED <<poolVars, heapVars, streamVars, val, ok, stream, init, evicted, held, err>>

\* GRPCPool.SetStreamInitializer(name, initializer)
SetStreamInitializer ==
    /\ ~panicked
    /\ pool = "ready"
    /\ \E n \in Names, f \in Initializers :
         /\ registry[n] # f
         /\ registry' = Set(registry, n, f)
    /\ UNCHANGED <<poolVars, heapVars, streamBy, streamLocals, held, op, pc, c, h, err, ret, checked>>

\* the transport of a connection fails (or the application closes it)
Break ==
    /\ ~panicked
    /\ pool = "ready"
    /\ \E x \in Conns :
         /\ connState[x] = "Ready"
         /\ connState' = Set(connState, x, "TransientFailure")
    /\ UNCHANGED <<options, pool, i, connections, connCount, dialer, panicked,
                   heapVars, streamVars, streamLocals, held, op, pc, c, h, err, ret, checked>>

\* ------------------------------------------------------------------ Spec
Next ==
    \/ \E t \in Procs : init_loop(t)
    \/ \E t \in Procs : init_enqueue(t)
    \/ \E t \in Procs : ref_load(t)
    \/ \E t \in Procs : ref_add(t)
    \/ \E t \in Procs : dial(t)
    \/ \E t \in Procs : dial_unref(t)
    \/ \E t \in Procs : select(t)
    \/ \E t \in Procs : check(t)
    \/ \E t \in Procs : check_unref(t)
    \/ \E t \in Procs : enqueue(t)
    \/ \E t \in Procs : return(t)
    \/ \E t \in Procs : count_check(t)
    \/ \E t \in Procs : push_check(t)
    \/ \E t \in Procs : push_unref(t)
    \/ \E t \in Procs : push_enqueue(t)
    \/ \E t \in Procs : Get(t)
    \/ \E t \in Procs : Pop(t)
    \/ \E t \in Procs : Push(t)
    \/ Break

Spec == Init /\ [][Next]_vars

\* ------------------------------------------------ the stream cache alone
\* NewGRPCPool has returned a pool of n connections
Constructed(o, n) ==
    /\ options = o
    /\ pool = "ready"
    /\ i = n
    /\ connections = [k \in 1..n |-> k]
    /\ connCount = n
    /\ connState = [x \in Conns |-> IF x <= n THEN "Ready" ELSE "Unborn"]
    /\ panicked = FALSE
    /\ op = [t \in Procs |-> IF t = 1 THEN "New" ELSE "none"]
    /\ pc = [t \in Procs |-> "done"]
    /\ InitLocals
    /\ registry = [m \in Names |-> 0]
    /\ wconn = [w \in Wrappers |-> IF w <= n THEN w ELSE 0]
    /\ wstreams = [w \in Wrappers |-> NoStreams]
    /\ streamBy = [x \in Streams |-> 0]

InitStream ==
    /\ Constructed([InitCap |-> 1, MaxCap |-> 1], 1)
    /\ dialer = "any"

NextStream ==
    \/ \E t \in Procs : ConnectionGetStream(t)
    \/ \E t \in Procs : gs_load(t)
    \/ \E t \in Procs : gs_cached(t)
    \/ \E t \in Procs : gs_delete(t)
    \/ \E t \in Procs : gs_lookup(t)
    \/ \E t \in Procs : gs_init(t)
    \/ \E t \in Procs : gs_new(t)
    \/ \E t \in Procs : gs_store(t)
    \/ SetStreamInitializer

SpecStream == InitStream /\ [][NextStream]_vars

\* callers that never run two GetStream calls on one wrapper and name at a time
SerialGetStream(t) ==
    /\ ConnectionGetStream(t)
    /\ \A u \in Procs \ {t} : pc[u] = "done" \/ c[u] # c'[t] \/ name[u] # name'[t]

NextStreamSerial ==
    \/ \E t \in Procs : SerialGetStream(t)
    \/ \E t \in Procs : gs_load(t)
    \/ \E t \in Procs : gs_cached(t)
    \/ \E t \in Procs : gs_delete(t)
    \/ \E t \in Procs : gs_lookup(t)
    \/ \E t \in Procs : gs_init(t)
    \/ \E t \in Procs : gs_new(t)
    \/ \E t \in Procs : gs_store(t)
    \/ SetStreamInitializer

SpecStreamSerial == InitStream /\ [][NextStreamSerial]_vars

\* --------------------------------------- GRPCPool.GetStream on a live pool
\* one goroutine calls GRPCPool.GetStream, or Connection.GetStream on a wrapper
\* of the free list, time after time
InitPoolStream ==
    /\ \E m \in 1..MaxCapBound : \E n \in 0..m : Constructed([InitCap |-> n, MaxCap |-> m], n)
    /\ dialer = "any"

NextPoolStream ==
    \/ GetStream(1)
    \/ ConnectionGetStream(1)
    \/ \E t \in Procs : select(t)
    \/ \E t \in Procs : check(t)
    \/ \E t \in Procs : check_unref(t)
    \/ \E t \in Procs : enqueue(t)
    \/ \E t \in Procs : return(t)
    \/ \E t \in Procs : ref_load(t)
    \/ \E t \in Procs : ref_add(t)
    \/ \E t \in Procs : dial(t)
    \/ \E t \in Procs : dial_unref(t)
    \/ \E t \in Procs : count_check(t)
    \/ \E t \in Procs : push_check(t)
    \/ \E t \in Procs : push_unref(t)
    \/ \E t \in Procs : push_enqueue(t)
    \/ \E t \in Procs : gs_load(t)
    \/ \E t \in Procs : gs_cached(t)
    \/ \E t \in Procs : gs_delete(t)
    \/ \E t \in Procs : gs_lookup(t)
    \/ \E t \in Procs : gs_init(t)
    \/ \E t \in Procs : gs_new(t)
    \/ \E t \in Procs : gs_store(t)
    \/ SetStreamInitializer
    \/ Break

SpecPoolStream == InitPoolStream /\ [][NextPoolStream]_vars

\* ------------------------------- two Get calls share the one free handle
\* The free list holds one healthy handle and the pool is full: its other
\* MaxCap - 1 connections are checked out.  Processes 1 and 2 have called Get.
InitShare ==
    /\ \E m \in 1..MaxConns :
         /\ options = [InitCap |-> m, MaxCap |-> m]
         /\ i = m
         /\ connCount = m
         /\ connState = [x \in Conns |-> IF x <= m THEN "Ready" ELSE "Unborn"]
         /\ held = [t \in Procs |-> IF t = 1 THEN 2..m ELSE {}]
    /\ pool = "ready"
    /\ connections = <<1>>
    /\ dialer = "any"
    /\ panicked = FALSE
    /\ op = [t \in Procs |-> IF t <= 2 THEN "Get" ELSE "none"]
    /\ pc = [t \in Procs |-> IF t <= 2 THEN "select" ELSE "done"]
    /\ c = [t \in Procs |-> 0]
    /\ h = [t \in Procs |-> 0]
    /\ name = [t \in Procs |-> "x"]
    /\ val = [t \in Procs |-> 0]
    /\ ok = [t \in Procs |-> FALSE]
    /\ stream = [t \in Procs |-> 0]
    /\ init = [t \in Procs |-> 0]
    /\ depth = [t \in Procs |-> 0]
    /\ evicted = {}
    /\ err = [t \in Procs |-> "nil"]
    /\ ret = [t \in Procs |-> NoRet]
    /\ checked = [t \in Procs |-> 0]
    /\ registry = [n \in Names |-> 0]
    /\ wconn = [w \in Wrappers |-> IF w = 1 THEN 1 ELSE 0]
    /\ wstreams = [w \in Wrappers |-> NoStreams]
    /\ streamBy = [x \in Streams |-> 0]

\* a checked-out connection fails; the one in the free list stays healthy
BreakHeld ==
    /\ Break
    /\ \A x \in Conns \ Exclusive : connState'[x] = connState[x]

StepShare(t) ==
    select(t) \/ check(t) \/ enqueue(t) \/ return(t) \/ ref_load(t)

NextShare ==
    \/ \E t \in Procs : select(t)
    \/ \E t \in Procs : check(t)
    \/ \E t \in Procs : enqueue(t)
    \/ \E t \in Procs : return(t)
    \/ \E t \in Procs : ref_load(t)
    \/ BreakHeld

\* the Go scheduler lets every runnable goroutine run
SpecShare == InitShare /\ [][NextShare]_vars /\ \A t \in Procs : WF_vars(StepShare(t))

\* ------------------------------------------ a pool whose dials all fail
\* NewGRPCPool was given InitCap = 0; one goroutine calls Get, Pop and
\* GetStream, one call after the other.
InitUnavail ==
    /\ \E m \in 1..MaxConns : Constructed([InitCap |-> 0, MaxCap |-> m], 0)
    /\ dialer = "fail"

StepUnavail(t) ==
    \/ select(t) \/ ref_load(t) \/ ref_add(t) \/ dial(t) \/ dial_unref(t)
    \/ count_check(t)

NextUnavail ==
    \/ Get(1)
    \/ Pop(1)
    \/ GetStream(1)
    \/ \E t \in Procs : select(t)
    \/ \E t \in Procs : ref_load(t)
    \/ \E t \in Procs : ref_add(t)
    \/ \E t \in Procs : dial(t)
    \/ \E t \in Procs : dial_unref(t)
    \/ \E t \in Procs : count_check(t)
    \/ SetStreamInitializer

SpecUnavail == InitUnavail /\ [][NextUnavail]_vars /\ \A t \in Procs : WF_vars(StepUnavail(t))

\* ------------------------------------------- callers that push twice
\* Callers check connections out with Pop and give them back with Push, and
\* may push a handle a second time once the pool has closed it.
InitRepush ==
    /\ \E m \in 1..MaxCapBound : Constructed([InitCap |-> m, MaxCap |-> m], m)
    /\ dialer = "any"

NextRepush ==
    \/ \E t \in Procs : Pop(t)
    \/ \E t \in Procs : Push(t)
    \/ \E t \in Procs : Repush(t)
    \/ \E t \in Procs : select(t)
    \/ \E t \in Procs : check(t)
    \/ \E t \in Procs : check_unref(t)
    \/ \E t \in Procs : return(t)
    \/ \E t \in Procs : ref_load(t)
    \/ \E t \in Procs : ref_add(t)
    \/ \E t \in Procs : dial(t)
    \/ \E t \in Procs : dial_unref(t)
    \/ \E t \in Procs : count_check(t)
    \/ \E t \in Procs : push_check(t)
    \/ \E t \in Procs : push_unref(t)
    \/ \E t \in Procs : push_enqueue(t)
    \/ Break

SpecRepush == InitRepush /\ [][NextRepush]_vars

\* ================================================================ claims
\* transports that are open: dialed and not closed
Open == {x \in Conns : connState[x] \in {"Ready", "TransientFailure"}}
\* dials in flight
Dialing == {t \in Procs : pc[t] = "dial"}

\* C1: connCount, and the number of transport connections that are dialed or
\* being dialed and not yet closed, never exceed MaxCap.
C1_CapacityNeverExceeded ==
    pool = "ready" =>
        /\ ~U32Geq(connCount, options.MaxCap + 1)
        /\ Cardinality(Open) + Cardinality(Dialing) <= options.MaxCap

\* C2: a GetStream call that finds the stream in the cache and whose handler
\* succeeds returns without calling the initializer: the places after the
\* cached branch are reached only by a call whose Load found nothing.
C2_CachedStreamReused ==
    \A t \in Procs :
        pc[t] \in {"gs_lookup", "gs_init", "gs_new", "gs_store"} => ~ok[t]

\* the stream cached in wrapper w under name n
Cached(w, n) == wstreams[w][n]

\* C8: once a handler has reported io.EOF on a cached stream, (a) the stream
\* leaves the cache with the Delete that follows, (b) the retried call finds
\* nothing cached and so goes on to the initializer, (c) the handler then
\* runs on a stream object that was never evicted, and (d) no evicted stream
\* is passed to a handler or found in a cache again.
C8_Step ==
    \A t \in Procs :
        /\ (pc[t] = "gs_cached" /\ pc'[t] = "gs_delete")
              => (val[t] \in evicted' /\ Cached(c[t], name[t]) = val[t])
        /\ (pc[t] = "gs_delete" /\ pc'[t] # pc[t])
              => (pc'[t] = "gs_load" /\ Cached(c[t], name[t])' = 0)
        /\ (depth'[t] > 1 /\ pc'[t] = "gs_load") => Cached(c[t], name[t])' = 0
        /\ depth'[t] > 1 => pc'[t] \in {"gs_load", "gs_lookup", "gs_init", "gs_new", "gs_store"}
        /\ (pc'[t] = "gs_cached" => val'[t] \notin evicted')
        /\ (pc'[t] \in {"gs_new", "gs_store"} => stream'[t] \notin evicted')
        /\ \A w \in Wrappers, n \in Names :
              Cached(w, n)' \in evicted'
                 => \E u \in Procs : pc'[u] = "gs_delete" /\ c'[u] = w /\ name'[u] = n

C8_EofReinitializes == [][C8_Step]_vars

\* a retried call runs the handler on a fresh stream after an eviction
C8_Witness ==
    \E t \in Procs : pc[t] = "gs_new" /\ depth[t] = 2 /\ stream[t] \notin evicted

\* the transports of the wrappers in the free list
FreeConns == {wconn[connections[k]] : k \in 1..Len(connections)}
\* process t returns from get / pop to the caller of Get / Pop in this step
Returns(t) == pc[t] = "return" /\ pc'[t] = "done"

\* C3: a handle Pop has returned is out of the free list, and until its caller
\* pushes it back no Pop or Get call returns it.
C3_Step ==
    /\ Exclusive' \cap FreeConns' = {}
    /\ \A t \in Procs : Returns(t) => wconn[c[t]] \notin Exclusive

C3_PopExclusive == [][C3_Step]_vars

\* C4: a handle returned by Get or Pop passed a health check in that call after
\* the call last took it from the free list, and no handle whose health check
\* failed (which the pool has closed) is returned.
C4_Step ==
    \A t \in Procs :
        Returns(t) => /\ checked[t] = wconn[c[t]]
                      /\ connState[wconn[c[t]]] # "Shutdown"

C4_CheckedBeforeReturn == [][C4_Step]_vars

\* C7: NewGRPCPool returns the dial error and no pool as soon as one of its
\* dials fails, and a pool of exactly InitCap connections, with connCount =
\* InitCap, if all InitCap dials succeed.
C7_Step ==
    /\ (op[1] = "New" /\ pc[1] = "dial_unref" /\ pc'[1] # pc[1])
          => (pool' = "nil" /\ pc'[1] = "done" /\ ret'[1] = [conn |-> 0, err |-> "DialError"])
    /\ (pool = "new" /\ i = options.InitCap /\ pc'[1] # pc[1]) => pool' = "ready"
    /\ (pool = "new" /\ pool' = "ready")
          => /\ Len(connections') = options.InitCap
             /\ Cardinality(FreeConns') = options.InitCap
             /\ connCount' = options.InitCap
             /\ ret'[1].err = "nil"
    /\ (pool = "new" /\ pool' = "nil")
          => \/ pc[1] = "dial_unref" /\ ret'[1].err = "DialError"
             \/ i = options.MaxCap /\ i < options.InitCap /\ ret'[1].err = "ErrExceeded"

C7_ConstructionAllOrNothing == [][C7_Step]_vars

\* the second of two dials failed
C7_Witness == pool = "nil" /\ i = 1 /\ options.InitCap = 2 /\ ret[1].err = "DialError"

\* both Get calls have returned
ShareDone == pc[1] = "done" /\ pc[2] = "done"

\* C5: with one healthy handle in the free list and connCount = MaxCap, two
\* concurrent Get calls both return, both with that handle, and then the free
\* list holds that one handle again and connCount is what it was.
C5_GetShares ==
    /\ <>ShareDone
    /\ [](ShareDone => /\ ret[1] = [conn |-> 1, err |-> "nil"]
                       /\ ret[2] = [conn |-> 1, err |-> "nil"]
                       /\ connections = <<1>>
                       /\ wconn[1] = 1
                       /\ connCount = options.MaxCap)

C5_Witness == ShareDone /\ ret[1].conn = 1 /\ ret[2].conn = 1 /\ options.MaxCap = 2

\* C6: with InitCap = 0 and a dialer that always fails, a Get call ends, with
\* ErrUnavailable and no handle, and leaves connCount = 0 and the free list
\* empty.
C6_GetUnavailable ==
    /\ \A t \in Procs : (op[t] = "Get" /\ pc[t] # "done") ~> (op[t] = "Get" /\ pc[t] = "done")
    /\ [](\A t \in Procs :
            (op[t] = "Get" /\ pc[t] = "done")
               => /\ ret[t] = [conn |-> 0, err |-> "ErrUnavailable"]
                  /\ connCount = 0
                  /\ connections = <<>>)

C6_Witness ==
    op[1] = "Get" /\ pc[1] = "done" /\ ret[1].err = "ErrUnavailable" /\ options.MaxCap = 2

\* Push is about to check a handle that an earlier health check has discarded
PushOfDiscarded(t) == op[t] = "Push" /\ pc[t] = "push_check" /\ connState[h[t]] = "Shutdown"

\* C10: the Push of a handle that was already discarded is a no-op: it returns
\* with connCount and the free list as they were, and with no unref to come.
C10_Step ==
    \A t \in Procs :
        (PushOfDiscarded(t) /\ pc'[t] # pc[t])
           => /\ pc'[t] = "done"
              /\ connCount' = connCount
              /\ connections' = connections

C10_RepushIsNoOp == [][C10_Step]_vars

\* process t is in Connection.GetStream for a name that has no initializer
Unregistered(t) == depth[t] > 0 /\ registry[name[t]] = 0
\* process t is in a GetStream call, of the pool or of a wrapper, for such a name
UnregisteredCall(t) ==
    /\ op[t] \in {"GetStream", "Connection.GetStream"}
    /\ pc[t] # "done"
    /\ registry[name[t]] = 0

\* C9: Connection.GetStream for a name with no registered initializer, called
\* directly or by GRPCPool.GetStream after pool.get() has returned a wrapper,
\* fails with the no-initializer error; it never is where the handler or the
\* initializer runs, finds nothing cached, and its steps leave the wrapper's
\* stream cache, the transport connections, connCount and the free list as
\* they are.
C9_Step ==
    \A t \in Procs :
        (Unregistered(t) /\ pc'[t] # pc[t])
           => /\ pc[t] \in {"gs_load", "gs_lookup"}
              /\ Cached(c[t], name[t]) = 0
              /\ pc'[t] \in {"gs_lookup", "done"}
              /\ pc'[t] = "done" => ret'[t] = [conn |-> 0, err |-> "NoInitializer"]
              /\ \A w \in Range(connections) : wstreams'[w] = wstreams[w]
              /\ streamBy' = streamBy
              /\ connState' = connState
              /\ connCount' = connCount
              /\ connections' = connections

C9_NoInitializerNoEffect == [][C9_Step]_vars

\* GRPCPool.GetStream has failed with the no-initializer error
C9_Witness ==
    \E t \in Procs :
        /\ op[t] = "GetStream"
        /\ pc[t] = "done"
        /\ ret[t].err = "NoInitializer"
        /\ registry[name[t]] = 0

\* C9 as stated, for the whole of a GetStream call of either kind: it dials,
\* closes and counts no transport connection, and ends with the no-initializer
\* error.
C9_WholeCallStep ==
    \A t \in Procs :
        (UnregisteredCall(t) /\ pc'[t] # pc[t])
           => /\ connState' = connState
              /\ connCount' = connCount
              /\ pc'[t] = "done" => ret'[t].err = "NoInitializer"

C9_AsStated == [][C9_WholeCallStep]_vars

\* process t is at a send into the free list
Sending(t) == pc[t] \in {"init_enqueue", "enqueue", "push_enqueue"}

\* C11: wherever init, get's re-enqueue or push is about to send a handle into
\* the free list, the free list holds fewer than MaxCap handles, so that the
\* send does not block.
C11_EnqueueNeverBlocks ==
    ~panicked => \A t \in Procs : Sending(t) => Len(connections) < options.MaxCap

\* pop's dial has failed with an error other than ErrExceeded and other
\* connections are counted
PopDialFailed(t) == op[t] = "Pop" /\ pc[t] = "count_check" /\ connCount # 0

\* C12: after such a failure pop goes round its loop again as get does: the
\* free list, connCount and the caller's result are as they were, and push
\* never runs its health check on a missing (nil) handle.
C12_Step ==
    \A t \in Procs :
        /\ (PopDialFailed(t) /\ pc'[t] # pc[t])
              => /\ pc'[t] = "select"
                 /\ connections' = connections
                 /\ connCount' = connCount
                 /\ ret'[t] = ret[t]
        /\ pc'[t] = "push_check" => h'[t] # 0

C12_PopRetriesAfterDialError == [][C12_Step]_vars

\* process t takes a step of its own
Steps(t) == pc'[t] # pc[t]

\* C13: factory reserves a slot (ref) before it dials and gives exactly that
\* slot back (unref) when the dial fails: the dial follows the increment, a
\* failed dial opens no transport and is followed by one decrement, after
\* which the caller has the dial error and no wrapper was made or enqueued; a
\* refused admission changes nothing and dials nothing.
C13_Step ==
    \A t \in Procs :
        /\ (pc[t] = "ref_load" /\ Steps(t))
              => /\ connCount' = connCount
                 /\ connState' = connState
                 /\ pc'[t] = "ref_add" <=> RefAdmits(connCount)
                 /\ ~RefAdmits(connCount)
                       => IF op[t] = "New"
                            THEN pc'[t] = "done" /\ ret'[t].err = "ErrExceeded"
                            ELSE pc'[t] = "select"
        /\ (pc'[t] = "dial" /\ Steps(t))
              => /\ pc[t] = "ref_add"
                 /\ connCount' = AddUint32(connCount)
                 /\ connState' = connState
        /\ (pc[t] = "dial" /\ Steps(t) /\ h'[t] = 0)
              => /\ pc'[t] = "dial_unref"
                 /\ connState' = connState
                 /\ connCount' = connCount
        /\ (pc'[t] = "dial_unref" /\ Steps(t)) => pc[t] = "dial"
        /\ (pc[t] = "dial_unref" /\ Steps(t))
              => /\ connCount' = connCount - 1
                 /\ connState' = connState
                 /\ IF op[t] = "New"
                      THEN pc'[t] = "done" /\ ret'[t] = [conn |-> 0, err |-> "DialError"]
                      ELSE pc'[t] = "count_check"
        /\ (pc[t] \in {"ref_load", "ref_add", "dial", "dial_unref"} /\ Steps(t))
              => /\ connections' = connections
                 /\ wconn' = wconn

C13_FailedDialReleasesSlot == [][C13_Step]_vars

\* get or pop has the dial error in hand, the slot given back
C13_Witness ==
    \E t \in Procs : op[t] \in {"Get", "Pop"} /\ pc[t] = "count_check" /\ connCount = 1

\* transports a health check found unhealthy and closed
Closed == {x \in Conns : connState[x] = "Shutdown"}

\* C14: no transport that a health check has closed is in the free list, in
\* any state, and a closed transport stays closed: the transports of the free
\* list are those whose last health check, if any, passed.
C14_FreeListHealthy ==
    /\ [](FreeConns \cap Closed = {})
    /\ [][Closed \subseteq Closed']_vars

\* a handle was discarded while another one is in the free list
C14_Witness == Closed # {} /\ connections # <<>>

\* C15: once the initializer has produced a stream and the handler has run on
\* it, an io.EOF from the handler is returned with the cache left as it is; any
\* other result, nil or an error, goes on to Store, which puts this stream in
\* the cache under the name, and GetStream returns that result.
C15_Step ==
    \A t \in Procs :
        /\ (pc[t] = "gs_new" /\ Steps(t))
              => /\ stream[t] # 0
                 /\ wstreams'[c[t]] = wstreams[c[t]]
                 /\ \/ pc'[t] = "done" /\ ret'[t] = [conn |-> 0, err |-> "EOF"]
                    \/ /\ pc'[t] = "gs_store"
                       /\ err'[t] \in {"nil", "HandlerError"}
                       /\ stream'[t] = stream[t]
        /\ (pc'[t] = "gs_store" /\ Steps(t)) => pc[t] = "gs_new"
        /\ (pc[t] = "gs_store" /\ Steps(t))
              => /\ pc'[t] = "done"
                 /\ ret'[t] = [conn |-> 0, err |-> err[t]]
                 /\ wstreams'[c[t]][name[t]] = stream[t]
                 /\ \A n \in Names \ {name[t]} : wstreams'[c[t]][n] = Cached(c[t], n)

C15_MissPathCaches == [][C15_Step]_vars

\* a call has cached its new stream and returned the handler's error
C15_Witness ==
    \E t \in Procs :
        /\ op[t] = "Connection.GetStream"
        /\ pc[t] = "done"
        /\ ret[t].err = "HandlerError"
        /\ \E w \in Range(connections) : Cached(w, name[t]) # 0

\* C16: connCount is the number of successful refs less the number of unrefs;
\* no unref runs without a ref before it, so that the uint32 counter is never
\* taken below zero (read as two's complement: never negative).
C16_UnrefNeverUnderflows == connCount >= 0

\* C17: every stream in a wrapper's cache was made by the initializer that is
\* registered under its name now, and the handler of a GetStream call is never
\* about to run on a cached stream made by another one.
C17_CacheMatchesRegistry ==
    /\ \A w \in Wrappers, n \in Names :
          Cached(w, n) # 0 => streamBy[Cached(w, n)] = registry[n]
    /\ \A t \in Procs :
          pc[t] = "gs_cached" => streamBy[val[t]] = registry[name[t]]

\* slots taken by ref whose dial is in flight, or whose unref is the next
\* statement of the goroutine (after a failed dial or a failed health check)
InFlight == {t \in Procs : pc[t] \in {"dial", "dial_unref", "check_unref", "push_unref"}}

\* the transport whose health check process t is about to run
Checking(t) == IF pc[t] = "check" THEN wconn[c[t]] ELSE h[t]

\* C18: in a constructed pool connCount is the number of dials in flight plus
\* the number of transports dialed and not closed (a slot whose unref is the
\* goroutine's next statement counts as in flight), and a health check closes
\* and un-counts only a transport that no health check has closed before.
C18_Step ==
    \A t \in Procs :
        (pc'[t] \in {"check_unref", "push_unref"} /\ Steps(t))
           => /\ pc[t] \in {"check", "push_check"}
              /\ Checking(t) \notin Closed
              /\ Closed' = Closed \cup {Checking(t)}

C18_Accounting ==
    /\ [](pool = "ready" => connCount = Cardinality(Open) + Cardinality(InFlight))
    /\ [][C18_Step]_vars

\* C19: no transport is in two slots of the free list, and no wrapper is.
C19_NoDuplicates ==
    /\ Cardinality(FreeConns) = Len(connections)
    /\ Cardinality(Range(connections)) = Len(connections)

\* two handles are in the free list, the second one put there by a Push
C19_Witness ==
    /\ Len(connections) = 2
    /\ \E t \in Procs : op[t] = "Push" /\ pc[t] = "done" /\ h[t] = wconn[connections[2]]

\* C20: the Delete that follows an io.EOF removes the stream the handler saw
\* the io.EOF on and no other: a stream that another call has cached under the
\* name in the meantime is still cached after it.
C20_Step ==
    \A t \in Procs :
        (pc[t] = "gs_delete" /\ Steps(t) /\ Cached(c[t], name[t]) # val[t])
           => wstreams'[c[t]][name[t]] = Cached(c[t], name[t])

C20_EvictsOnlyDeadStream == [][C20_Step]_vars

====
